---- MODULE Spec2Model ----
(***************************************************************************)
(* TrafficSignDetector (traffic_sign_detector.py): construction and model  *)
(* load, detect_sign, detect_batch and save_results_to_json, together with  *)
(* the callers' use of one detector object.                                 *)
(*                                                                         *)
(* Numbers.  Python floats (64-bit) are integers of a fine grid; the       *)
(* float32 values the interpreter produces are the multiples of F32Step on  *)
(* that grid, so a Python float that is no float32 (such as 0.3) lies      *)
(* strictly between two float32 values.  Times are hundredths of a         *)
(* millisecond, rates are hundredths of a percent.                         *)
(***************************************************************************)
EXTENDS Integers, Sequences, FiniteSets, TLC

VARIABLES numpy,        \* the installed numpy build: scalar promotion, argsort tie order
          detector,     \* "none" | "ready" | "raised": outcome of TrafficSignDetector(...)
          self,         \* the detector object's attributes
          loads,        \* how many times tf.lite.Interpreter(model_path=...) ran
          pc,           \* "idle" | "detect_batch" | "returned"
          op,           \* the operation that is running or has returned
          raised,       \* the last operation raised to its caller
          result,       \* value returned by detect_sign
          image_paths,  \* detect_batch: its argument
          i,            \* detect_batch: how many paths the loop has taken
          results,      \* detect_batch: the list under construction, then returned;
                        \* save_results_to_json: its argument
          output_path,  \* save_results_to_json: where it was told to write
          output_data,  \* save_results_to_json: the report written
          probe         \* an earlier detect_sign outcome kept by the caller

vars == <<numpy, detector, self, loads, pc, op, raised, result, image_paths,
          i, results, output_path, output_data, probe>>

None == <<>>

-----------------------------------------------------------------------------
(* Bounds of the exploration *)

\* image contents: how many classes of a score vector are not background
MaxHot == 4
\* longest list of paths given to detect_batch
MaxBatch == 2
\* longest list of caller-made records given to save_results_to_json
MaxSave == 3

-----------------------------------------------------------------------------
(* Program constants *)

LABELS == <<
    "Speed limit (20km/h)", "Speed limit (30km/h)", "Speed limit (50km/h)", "Speed limit (60km/h)",
    "Speed limit (70km/h)", "Speed limit (80km/h)", "End of speed limit (80km/h)", "Speed limit (100km/h)",
    "Speed limit (120km/h)", "No passing", "No passing veh over 3.5 tons", "Right-of-way at intersection",
    "Priority road", "Yield", "Stop", "No vehicles", "Veh > 3.5 tons prohibited", "No entry",
    "General caution", "Dangerous curve left", "Dangerous curve right", "Double curve", "Bumpy road",
    "Slippery road", "Road narrows on the right", "Road work", "Traffic signals", "Pedestrians",
    "Children crossing", "Bicycles crossing", "Beware of ice/snow", "Wild animals crossing",
    "End speed + passing limits", "Turn right ahead", "Turn left ahead", "Ahead only", "Go straight or right",
    "Go straight or left", "Keep right", "Keep left", "Roundabout mandatory", "End of no passing",
    "End no passing veh > 3.5 tons" >>

\* len(self.LABELS)
NumLabels == Len(LABELS)

\* LABELS[idx] for a 0-based idx; the caller checks the range (IndexError)
Label(idx) == LABELS[idx + 1]

\* the slice [-3:] of detect_sign
TopK == 3

\* preprocess_image's target_size (224, 224), RGB, with the batch dimension
TensorShape == <<1, 224, 224, 3>>

-----------------------------------------------------------------------------
(* Floating point *)

\* distance between neighbouring float32 values on the grid of Python floats
F32Step == 4

\* conversion of a Python float to float32: round to nearest, ties to even
F32(x) ==
    LET lo == (x \div F32Step) * F32Step
        r  == x % F32Step
    IN  IF 2 * r < F32Step THEN lo
        ELSE IF 2 * r > F32Step THEN lo + F32Step
        ELSE IF (lo \div F32Step) % 2 = 0 THEN lo ELSE lo + F32Step

\* float32 scores the model can put on a class: background, and two others
Levels == {0, 120, 124}

\* confidence_threshold: float = 0.3.  0.3 is no float32: the nearest float32
\* is the next one above it, 120 on the grid
DefaultThreshold == 119

\* thresholds a caller can pass: 119 is no float32 and rounds up to 120,
\* 120 is a float32, 121 is no float32 and rounds down to 120
Thresholds == {DefaultThreshold, 120, 121}

Min(a, b) == IF a < b THEN a ELSE b

-----------------------------------------------------------------------------
(* The environment: the numpy build, model files, image files, the clock *)

\* np.argsort's default kind is quicksort, which is not stable: where equal
\* scores end up is fixed by the build and not specified.  "stable" keeps equal
\* scores in index order, "reverse" is the opposite order.
TieOrders == {"stable", "reverse"}

\* weak: a Python float compared with a float32 scalar is first converted to
\* float32 (numpy >= 2); otherwise the comparison is done in 64 bits (numpy 1.x)
NumpyBuilds == [weak : BOOLEAN, ties : TieOrders]

DefaultModelPath == "models/gtsrb_model.lite"

ModelPaths == {DefaultModelPath, "models/small_input.lite",
               "models/extra_class.lite", "models/missing.lite"}

\* what tf.lite.Interpreter finds at a path: whether it is a model at all, the
\* input shape it declares and the length of its output vector
ModelFile(path) ==
    CASE path = DefaultModelPath           -> [valid |-> TRUE,  input_shape |-> <<1, 224, 224, 3>>, outputs |-> 43]
      [] path = "models/small_input.lite"  -> [valid |-> TRUE,  input_shape |-> <<1, 32, 32, 3>>,   outputs |-> 43]
      [] path = "models/extra_class.lite"  -> [valid |-> TRUE,  input_shape |-> <<1, 224, 224, 3>>, outputs |-> 44]
      [] OTHER                             -> [valid |-> FALSE, input_shape |-> <<>>,               outputs |-> 0]

OutputLengths == {ModelFile(path).outputs : path \in {q \in ModelPaths : ModelFile(q).valid}}

\* the content of an image, as far as the model looks at it: the scores of the
\* classes that are not background
Contents == [1..MaxHot -> Levels]

\* an image path stands for the file behind it: whether PIL can decode it, and
\* its content
ImagePath(px) == [readable |-> TRUE, px |-> px]
Unreadable == [readable |-> FALSE, px |-> [j \in 1..MaxHot |-> 0]]
ImagePaths == {ImagePath(px) : px \in Contents} \cup {Unreadable}

\* the paths a caller comes back to: batches, and repeated detections
Blank == ImagePath([j \in 1..MaxHot |-> 0])
Clear == ImagePath([j \in 1..MaxHot |-> IF j = 1 THEN 124 ELSE 0])
Tied  == ImagePath([j \in 1..MaxHot |-> IF j <= 2 THEN 124 ELSE 0])
Edge  == ImagePath([j \in 1..MaxHot |-> IF j = 2 THEN 120 ELSE 0])
BatchPaths == {Unreadable, Tied, Edge}

\* what the clock gives one detect_sign call: datetime.now().isoformat(), and
\* round(inference_time * 1000, 2) in hundredths of a millisecond
ClockReadings ==
    { [timestamp |-> "2025-06-01T10:00:00.000001", inference_time_ms |-> 1250],
      [timestamp |-> "2025-06-01T10:00:00.000002", inference_time_ms |-> 1251] }

Timestamps == {c.timestamp : c \in ClockReadings}

OutputPaths == {"output/detection_results.json", "missing_dir/results.json"}
Writable(target) == target = "output/detection_results.json"

-----------------------------------------------------------------------------
(* Exceptions: the outcome of a step that may raise *)

Ok(v)    == [raised |-> FALSE, value |-> v,    error |-> ""]
Raise(e) == [raised |-> TRUE,  value |-> None, error |-> e]

-----------------------------------------------------------------------------
(* _load_model *)

\* the interpreter's own state: whether it has run
Interpreters == [invoked : BOOLEAN]

\* variant: a file that is no model is replaced by the default model
LoadModelSwallowed(model_path) ==
    LET f == IF ModelFile(model_path).valid THEN ModelFile(model_path)
             ELSE ModelFile(DefaultModelPath)
    IN  Ok([interpreter    |-> [invoked |-> FALSE],
            input_details  |-> [shape |-> f.input_shape],
            output_details |-> [shape |-> <<1, f.outputs>>]])

\* tf.lite.Interpreter(model_path=...), allocate_tensors, get_*_details
LoadModel(model_path) ==
    LET f == ModelFile(model_path)
    IN  IF f.valid
        THEN Ok([interpreter    |-> [invoked |-> FALSE],
                 input_details  |-> [shape |-> f.input_shape],
                 output_details |-> [shape |-> <<1, f.outputs>>]])
        ELSE Raise("Could not open model file")

-----------------------------------------------------------------------------
(* preprocess_image *)

preprocess_image(image_path) ==
    IF image_path.readable
    THEN Ok([shape |-> TensorShape, px |-> image_path.px])
    ELSE Raise("cannot identify image file")

-----------------------------------------------------------------------------
(* The interpreter and the numpy calls on its output *)

\* the class on which the model puts the j-th component of an image's content
HotClass(j, n) == IF j % 2 = 1 THEN (j - 1) \div 2 ELSE n - (j \div 2)

RECURSIVE Overlay(_, _, _)
Overlay(px, j, n) ==
    IF j \notin DOMAIN px
    THEN [c \in 0..(n - 1) |-> 0]
    ELSE (HotClass(j, n) :> px[j]) @@ Overlay(px, j + 1, n)

\* variant: the first invocation after the load leaves the output at zero
ModelOutputCold(interpreter, n, px) ==
    IF interpreter.invoked THEN Overlay(px, 1, n) ELSE Overlay(<<>>, 1, n)

\* invoke and get_tensor(...)[0]: the n scores, a function of the input alone
ModelOutput(interpreter, n, px) == Overlay(px, 1, n)

\* variant: the last index of the maximum
argmaxLast(s) ==
    CHOOSE c \in DOMAIN s :
        \A d \in DOMAIN s : s[d] < s[c] \/ (s[d] = s[c] /\ c >= d)

\* np.argmax: the first index of the maximum
argmax(s) ==
    CHOOSE c \in DOMAIN s :
        \A d \in DOMAIN s : s[d] < s[c] \/ (s[d] = s[c] /\ c <= d)

\* np.max
max(s) == s[argmax(s)]

\* a comes before b in np.argsort(s)
ArgsortBefore(s, ties, a, b) ==
    \/ s[a] < s[b]
    \/ s[a] = s[b] /\ (IF ties = "stable" THEN a < b ELSE a > b)

\* np.argsort(s): the indices in ascending order of score, as a sequence
\* (f @@ <<>> is f, tabulated)
argsort(s, ties) ==
    LET pos == [c \in DOMAIN s |->
                   Cardinality({d \in DOMAIN s : ArgsortBefore(s, ties, d, c)})] @@ <<>>
    IN  [p \in 1..Cardinality(DOMAIN s) |-> CHOOSE c \in DOMAIN s : pos[c] = p - 1]

\* variant: the slice takes the first k
FirstK(seq, k) ==
    LET m == Min(k, Len(seq))
    IN  [x \in 1..m |-> seq[x]]

\* seq[-k:]
LastK(seq, k) ==
    LET m == Min(k, Len(seq))
    IN  [x \in 1..m |-> seq[Len(seq) - m + x]]

\* variant: the slice is not reversed
NotReversed(seq) == seq

\* seq[::-1]
Reversed(seq) == [x \in 1..Len(seq) |-> seq[Len(seq) + 1 - x]]

\* np.argsort(output_data[0])[-3:][::-1]
TopIndices(s, ties) == Reversed(LastK(argsort(s, ties), TopK))

\* output_data[0], np.argmax of it and top_indices, computed once for every
\* interpreter state, output length, image content and tie order
Forward ==
    [interpreter \in Interpreters, n \in OutputLengths, px \in Contents, ties \in TieOrders |->
        LET s == ModelOutput(interpreter, n, px)
        IN  [output_data     |-> s,
             predicted_class |-> argmax(s),
             top_indices     |-> TopIndices(s, ties) \o <<>>]] @@ <<>>

\* set_tensor, invoke, get_tensor, np.argmax, np.argsort
RunInference(obj, build, input_data) ==
    IF input_data.shape # obj.input_details.shape
    THEN Raise("Cannot set tensor: Dimension mismatch")
    ELSE Ok(Forward[obj.interpreter, obj.output_details.shape[2], input_data.px, build.ties])

-----------------------------------------------------------------------------
(* The decision of detect_sign *)

\* variant: the comparison is not strict
DetectedAtLeast(confidence, threshold) == confidence >= threshold

\* confidence > self.confidence_threshold, both Python floats
Detected(confidence, threshold) == confidence > threshold

\* variant: a score equal to the threshold is listed
ScoreAtLeast(score, threshold, weak) ==
    IF weak THEN score >= F32(threshold) ELSE score >= threshold

\* output_data[0][idx] > self.confidence_threshold: a float32 scalar against a
\* Python float
ScoreAbove(score, threshold, weak) ==
    IF weak THEN score > F32(threshold) ELSE score > threshold

\* the dictionary built for one class
Detection(idx, confidence) ==
    [class_id |-> idx, label |-> Label(idx), confidence |-> confidence]

\* the loop over top_indices
TopPredictions(s, top_indices, threshold, weak) ==
    LET kept == SelectSeq(top_indices, LAMBDA idx : ScoreAbove(s[idx], threshold, weak))
    IN  IF \E x \in DOMAIN kept : kept[x] >= NumLabels
        THEN Raise("list index out of range")
        ELSE Ok([x \in DOMAIN kept |-> Detection(kept[x], s[kept[x]])])

\* variant: the dictionary is built whether or not the class is detected
PrimaryAlways(predicted_class, confidence, threshold) ==
    IF predicted_class >= NumLabels
    THEN Raise("list index out of range")
    ELSE Ok(Detection(predicted_class, confidence))

\* 'primary_detection': {...} if confidence > self.confidence_threshold else None
PrimaryDetection(predicted_class, confidence, threshold) ==
    IF Detected(confidence, threshold)
    THEN IF predicted_class >= NumLabels
         THEN Raise("list index out of range")
         ELSE Ok(Detection(predicted_class, confidence))
    ELSE Ok(None)

-----------------------------------------------------------------------------
(* detect_sign *)

\* variant: the failure is raised again
Reraise(image_path, ts, e) == Raise(e)

\* the except block: the failure becomes a record
ErrorRecord(image_path, ts, e) ==
    Ok([image_path |-> image_path,
        timestamp  |-> ts,
        error      |-> e,
        detected   |-> FALSE])

\* variant: model_info reports the constructor's defaults
ModelInfoDefaults(obj) ==
    [model_path           |-> DefaultModelPath,
     confidence_threshold |-> DefaultThreshold,
     input_shape          |-> obj.input_details.shape,
     total_classes        |-> NumLabels]

\* 'model_info': the detector's own attributes and len(self.LABELS)
ModelInfo(obj) ==
    [model_path           |-> obj.model_path,
     confidence_threshold |-> obj.confidence_threshold,
     input_shape          |-> obj.input_details.shape,
     total_classes        |-> NumLabels]

\* the value detect_sign hands to its caller, or the exception it lets through
detect_sign(obj, build, image_path, ts, ms) ==
    LET pre        == preprocess_image(image_path)
        inf        == RunInference(obj, build, pre.value)
        scores     == inf.value.output_data
        confidence == scores[inf.value.predicted_class]
        top        == TopPredictions(scores, inf.value.top_indices,
                                     obj.confidence_threshold, build.weak)
        primary    == PrimaryDetection(inf.value.predicted_class, confidence,
                                       obj.confidence_threshold)
    IN  IF pre.raised THEN ErrorRecord(image_path, ts, pre.error)
        ELSE IF inf.raised THEN ErrorRecord(image_path, ts, inf.error)
        ELSE IF top.raised THEN ErrorRecord(image_path, ts, top.error)
        ELSE IF primary.raised THEN ErrorRecord(image_path, ts, primary.error)
        ELSE Ok([image_path        |-> image_path,
                 timestamp         |-> ts,
                 inference_time_ms |-> ms,
                 detected          |-> Detected(confidence, obj.confidence_threshold),
                 primary_detection |-> primary.value,
                 top_predictions   |-> top.value,
                 model_info        |-> ModelInfo(obj)])

\* the detector object after detect_sign: only the interpreter has run
AfterDetect(obj, build, image_path) ==
    LET pre == preprocess_image(image_path)
    IN  IF ~pre.raised /\ ~RunInference(obj, build, pre.value).raised
        THEN [obj EXCEPT !.interpreter.invoked = TRUE]
        ELSE obj

-----------------------------------------------------------------------------
(* detect_batch *)

\* variant: an error record is not appended
AppendedUnlessError(list, r) == IF "error" \in DOMAIN r THEN list ELSE Append(list, r)

\* results.append(result)
Appended(list, r) == Append(list, r)

-----------------------------------------------------------------------------
(* save_results_to_json *)

\* r.get(key, default)
Get(r, key, default) == IF key \in DOMAIN r THEN r[key] ELSE default

RECURSIVE Sum(_)
Sum(seq) == IF seq = <<>> THEN 0 ELSE Head(seq) + Sum(Tail(seq))

\* num / den rounded to the nearest integer, ties to even: round(x, 2) of a
\* value counted in hundredths
RoundDiv(num, den) ==
    LET q == num \div den
        r == num % den
    IN  IF 2 * r < den THEN q
        ELSE IF 2 * r > den THEN q + 1
        ELSE IF q % 2 = 0 THEN q ELSE q + 1

\* variant: every record without an error counts as a detection
SuccessfulWithoutError(rs) ==
    Cardinality({k \in DOMAIN rs : "error" \notin DOMAIN rs[k]})

\* sum(1 for r in results if r.get('detected', False))
SuccessfulDetections(rs) ==
    Cardinality({k \in DOMAIN rs : Get(rs[k], "detected", FALSE)})

\* variant: the rate is cut off after 2 decimals, not rounded
SuccessRateTruncated(successful, total) ==
    IF total > 0 THEN (successful * 10000) \div total ELSE 0

\* round(successful / total * 100, 2) if total > 0 else 0
SuccessRate(successful, total) ==
    IF total > 0 THEN RoundDiv(successful * 10000, total) ELSE 0

\* [r.get('inference_time_ms', 0) for r in results if 'inference_time_ms' in r]
InferenceTimesOf(rs) ==
    LET timed == SelectSeq(rs, LAMBDA r : "inference_time_ms" \in DOMAIN r)
    IN  [k \in DOMAIN timed |-> Get(timed[k], "inference_time_ms", 0)]

\* variant: the sum of the times is divided by the number of all records
AverageOverAll(rs) ==
    LET inference_times == InferenceTimesOf(rs)
    IN  IF inference_times # <<>>
        THEN RoundDiv(Sum(inference_times), Len(rs))
        ELSE 0

\* round(np.mean(inference_times) if inference_times else 0, 2)
AverageInferenceTime(rs) ==
    LET inference_times == InferenceTimesOf(rs)
    IN  IF inference_times # <<>>
        THEN RoundDiv(Sum(inference_times), Len(inference_times))
        ELSE 0

\* output_data of save_results_to_json
Report(rs, ts) ==
    LET total_detections      == Len(rs)
        successful_detections == SuccessfulDetections(rs)
        failed_detections     == total_detections - successful_detections
    IN  [detection_summary |->
            [total_images              |-> total_detections,
             successful_detections     |-> successful_detections,
             failed_detections         |-> failed_detections,
             success_rate              |-> SuccessRate(successful_detections, total_detections),
             average_inference_time_ms |-> AverageInferenceTime(rs),
             detection_timestamp       |-> ts],
         detections |-> rs]

\* records a caller can make up itself, next to those detect_sign returns
CallerRecords ==
    { [image_path |-> Clear, detected |-> TRUE,  inference_time_ms |-> 1250],
      [image_path |-> Tied,  detected |-> TRUE,  inference_time_ms |-> 1251],
      [image_path |-> Edge,  detected |-> FALSE, inference_time_ms |-> 1251],
      [image_path |-> Unreadable, detected |-> FALSE, error |-> "cannot identify image file"],
      [image_path |-> Blank, inference_time_ms |-> 1250],
      [image_path |-> Blank] }

SeqsUpTo(S, n) == UNION {[1..k -> S] : k \in 0..n}

-----------------------------------------------------------------------------
(* The state machine *)

Init ==
    /\ numpy \in NumpyBuilds
    /\ detector = "none"
    /\ self = None
    /\ loads = 0
    /\ pc = "idle"
    /\ op = "none"
    /\ raised = FALSE
    /\ result = None
    /\ image_paths = <<>>
    /\ i = 0
    /\ results = <<>>
    /\ output_path = ""
    /\ output_data = None
    /\ probe = None

\* the attributes of a detector whose model has been loaded
Attributes(model_path, confidence_threshold, loaded) ==
    [model_path           |-> model_path,
     confidence_threshold |-> confidence_threshold,
     interpreter          |-> loaded.interpreter,
     input_details        |-> loaded.input_details,
     output_details       |-> loaded.output_details]

\* TrafficSignDetector(model_path, confidence_threshold): __init__ and _load_model
Construct(model_path, confidence_threshold) ==
    /\ detector = "none"
    /\ LET loaded == LoadModel(model_path)
       IN  /\ loads' = loads + 1
           /\ IF loaded.raised
              THEN /\ detector' = "raised"
                   /\ self' = None
              ELSE /\ detector' = "ready"
                   /\ self' = Attributes(model_path, confidence_threshold, loaded.value)
    /\ UNCHANGED <<numpy, pc, op, raised, result, image_paths, i, results,
                   output_path, output_data, probe>>

\* detector.detect_sign(image_path), called directly
DetectSign(image_path) ==
    /\ detector = "ready"
    /\ pc = "idle"
    /\ \E clock \in ClockReadings :
          LET r == detect_sign(self, numpy, image_path,
                               clock.timestamp, clock.inference_time_ms)
          IN  /\ raised' = r.raised
              /\ result' = r.value
    /\ self' = AfterDetect(self, numpy, image_path)
    /\ pc' = "returned"
    /\ op' = "detect_sign"
    /\ UNCHANGED <<numpy, detector, loads, image_paths, i, results, output_path, output_data, probe>>

\* detector.detect_batch(image_paths): entry
DetectBatch(paths) ==
    /\ detector = "ready"
    /\ pc = "idle"
    /\ pc' = "detect_batch"
    /\ op' = "detect_batch"
    /\ image_paths' = paths
    /\ i' = 0
    /\ results' = <<>>
    /\ UNCHANGED <<numpy, detector, self, loads, raised, result, output_path, output_data, probe>>

\* one turn of the for loop: detect_sign on the next path, append
DetectBatchLoop ==
    /\ pc = "detect_batch"
    /\ i < Len(image_paths)
    /\ \E clock \in ClockReadings :
          LET r == detect_sign(self, numpy, image_paths[i + 1],
                               clock.timestamp, clock.inference_time_ms)
          IN  IF r.raised
              THEN /\ raised' = TRUE
                   /\ pc' = "returned"
                   /\ results' = <<>>
              ELSE /\ raised' = FALSE
                   /\ pc' = pc
                   /\ results' = Appended(results, r.value)
    /\ self' = AfterDetect(self, numpy, image_paths[i + 1])
    /\ i' = i + 1
    /\ UNCHANGED <<numpy, detector, loads, op, result, image_paths, output_path, output_data, probe>>

\* return results
DetectBatchReturn ==
    /\ pc = "detect_batch"
    /\ i = Len(image_paths)
    /\ pc' = "returned"
    /\ UNCHANGED <<numpy, detector, self, loads, op, raised, result, image_paths,
                   i, results, output_path, output_data, probe>>

\* detector.save_results_to_json(rs, target): target is its output_path
Save(rs, target) ==
    /\ detector = "ready"
    /\ \E ts \in Timestamps :
          IF Writable(target)
          THEN /\ output_data' = Report(rs, ts)
               /\ raised' = FALSE
          ELSE /\ output_data' = None
               /\ raised' = TRUE
    /\ pc' = "returned"
    /\ op' = "save_results_to_json"
    /\ output_path' = target
    /\ results' = rs
    /\ result' = None
    /\ image_paths' = <<>>
    /\ i' = 0
    /\ UNCHANGED <<numpy, detector, self, loads, probe>>

\* the callers save what detection returned: [result] or the batch's list
SaveReturned(target) ==
    /\ pc = "returned"
    /\ ~raised
    /\ op \in {"detect_sign", "detect_batch"}
    /\ Save(IF op = "detect_sign" THEN <<result>> ELSE results, target)

\* a caller saves records of its own
SaveRecords(rs, target) ==
    /\ pc = "idle"
    /\ Save(rs, target)

\* what a caller compares of two detect_sign records
Outcome(r) ==
    [k \in DOMAIN r \cap {"image_path", "detected", "primary_detection", "top_predictions"}
        |-> r[k]]

\* the caller keeps what detect_sign returned for a path it will come back to
Keep ==
    /\ pc = "returned"
    /\ op = "detect_sign"
    /\ ~raised
    /\ probe = None
    /\ result.image_path \in BatchPaths
    /\ probe' = [outcome |-> Outcome(result), timestamp |-> result.timestamp]
    /\ UNCHANGED <<numpy, detector, self, loads, pc, op, raised, result, image_paths,
                   i, results, output_path, output_data>>

\* the caller is done with the returned value
Discard ==
    /\ pc = "returned"
    /\ pc' = "idle"
    /\ op' = "none"
    /\ raised' = FALSE
    /\ result' = None
    /\ image_paths' = <<>>
    /\ i' = 0
    /\ results' = <<>>
    /\ output_path' = ""
    /\ output_data' = None
    /\ UNCHANGED <<numpy, detector, self, loads, probe>>

\* one detector used as the command-line scripts use it
Next ==
    \/ \E model_path \in ModelPaths : Construct(model_path, DefaultThreshold)
    \/ \E image_path \in BatchPaths : DetectSign(image_path)
    \/ \E paths \in SeqsUpTo(BatchPaths, MaxBatch) : DetectBatch(paths)
    \/ DetectBatchLoop
    \/ DetectBatchReturn
    \/ \E target \in OutputPaths : SaveReturned(target)
    \/ Keep
    \/ Discard

Spec == Init /\ [][Next]_vars

\* detect_sign on every image, model and threshold
NextDetect ==
    \/ \E model_path \in ModelPaths, t \in Thresholds : Construct(model_path, t)
    \/ \E image_path \in ImagePaths : DetectSign(image_path)
    \/ Discard

SpecDetect == Init /\ [][NextDetect]_vars

\* save_results_to_json on every short list of records
NextReport ==
    \/ Construct(DefaultModelPath, DefaultThreshold)
    \/ \E rs \in SeqsUpTo(CallerRecords, MaxSave), target \in OutputPaths :
          SaveRecords(rs, target)
    \/ Discard

SpecReport == Init /\ [][NextReport]_vars

-----------------------------------------------------------------------------
(* Properties of detect_sign *)

\* detect_sign has returned a value to its caller
Returned == pc = "returned" /\ op = "detect_sign" /\ ~raised

\* a record of the try block, not of the except block
Successful(r) == "error" \notin DOMAIN r

\* the score vector the model gives for the path of a record
ScoresOf(r) ==
    ModelOutput(self.interpreter, self.output_details.shape[2], r.image_path.px)

\* the largest score of a vector
MaxScore(s) == CHOOSE m \in {s[c] : c \in DOMAIN s} : \A c \in DOMAIN s : s[c] <= m

\* the classes of a vector with a score above t
Above(s, t) == {c \in DOMAIN s : s[c] > t}

\* C1: a successful detect_sign returns detected = (max(s) > t), with a strict
\* comparison: a maximum equal to the threshold is no detection
C1_DetectedIffMaxAboveThreshold ==
    (Returned /\ Successful(result)) =>
        (result.detected <=> MaxScore(ScoresOf(result)) > self.confidence_threshold)

\* a successful record whose maximum score equals the threshold
C1_Witness ==
    /\ Returned
    /\ Successful(result)
    /\ MaxScore(ScoresOf(result)) = self.confidence_threshold
    /\ ~result.detected

\* C2: primary_detection is present exactly when detected is true; then its
\* class is one of 0..42 with the maximum score, its confidence is that
\* maximum and its label is LABELS[class_id]; otherwise it is None
C2_PrimaryIffDetected ==
    (Returned /\ Successful(result)) =>
        LET s == ScoresOf(result)
            p == result.primary_detection
        IN  /\ (p # None) <=> result.detected
            /\ result.detected =>
                  /\ p.class_id \in 0..42
                  /\ s[p.class_id] = MaxScore(s)
                  /\ p.confidence = MaxScore(s)
                  /\ p.label = LABELS[p.class_id + 1]

\* a detection whose primary class is Stop-like: present, with the maximum
C2_Witness ==
    /\ Returned
    /\ Successful(result)
    /\ result.detected
    /\ result.primary_detection # None
    /\ result.primary_detection.confidence = 124
    /\ result.primary_detection.class_id = 42

\* C3: top_predictions holds exactly those of the 3 highest-scoring classes
\* whose score is above t: at most 3 entries, each above t with its own score
\* and label, no class twice, no unlisted class scoring higher than a listed
\* one, and every class above t is listed when fewer than 3 are above t
C3_TopPredictionsExact ==
    (Returned /\ Successful(result)) =>
        LET s      == ScoresOf(result)
            t      == self.confidence_threshold
            top    == result.top_predictions
            listed == {top[k].class_id : k \in DOMAIN top}
        IN  /\ Len(top) <= 3
            /\ \A k \in DOMAIN top :
                  /\ top[k].class_id \in DOMAIN s
                  /\ top[k].confidence > t
                  /\ top[k].confidence = s[top[k].class_id]
                  /\ top[k].label = LABELS[top[k].class_id + 1]
            /\ Cardinality(listed) = Len(top)
            /\ \A c \in listed, d \in DOMAIN s \ listed : s[d] <= s[c]
            /\ Len(top) = Min(3, Cardinality(Above(s, t)))

FailsEarly(r) ==
    \/ ~r.image_path.readable
    \/ self.input_details.shape # TensorShape

\* C5: detect_sign never raises; a failure gives a record with detected =
\* false and the failure's message in error, without primary_detection and
\* top_predictions
C5_FailuresBecomeRecords ==
    (pc = "returned" /\ op = "detect_sign") =>
        /\ ~raised
        /\ FailsEarly(result) => ~Successful(result)
        /\ ~Successful(result) =>
              /\ result.detected = FALSE
              /\ result.error # ""
              /\ "primary_detection" \notin DOMAIN result
              /\ "top_predictions" \notin DOMAIN result

\* an unreadable path has given an error record
C5_Witness ==
    /\ Returned
    /\ ~result.image_path.readable
    /\ ~Successful(result)
    /\ result.detected = FALSE

-----------------------------------------------------------------------------
(* Properties of detect_batch *)

\* C6: detect_batch returns one record per path, in the order of the paths;
\* a failing path gives an error record and the loop goes on to the paths
\* after it, until it returns
C6_BatchKeepsEveryPath ==
    /\ pc = "detect_batch" =>
          /\ ~raised
          /\ i <= Len(image_paths)
          /\ Len(results) = i
          /\ ENABLED (DetectBatchLoop \/ DetectBatchReturn)
    /\ (pc = "returned" /\ op = "detect_batch") =>
          /\ ~raised
          /\ Len(results) = Len(image_paths)
          /\ \A k \in DOMAIN results :
                /\ results[k].image_path = image_paths[k]
                /\ ~image_paths[k].readable => ~Successful(results[k])

\* a batch of two has returned: the first path failed, the second was detected
C6_Witness ==
    /\ pc = "returned"
    /\ op = "detect_batch"
    /\ Len(image_paths) = 2
    /\ Len(results) = 2
    /\ ~Successful(results[1])
    /\ Successful(results[2])
    /\ results[2].detected

-----------------------------------------------------------------------------
(* Properties of save_results_to_json *)

\* save_results_to_json has written its report
Saved == pc = "returned" /\ op = "save_results_to_json" /\ ~raised

Abs(x) == IF x < 0 THEN -x ELSE x

RECURSIVE CountDetected(_)
CountDetected(rs) ==
    IF rs = <<>> THEN 0
    ELSE (IF "detected" \in DOMAIN Head(rs) /\ Head(rs).detected THEN 1 ELSE 0)
         + CountDetected(Tail(rs))

RECURSIVE TimedCount(_)
TimedCount(rs) ==
    IF rs = <<>> THEN 0
    ELSE (IF "inference_time_ms" \in DOMAIN Head(rs) THEN 1 ELSE 0)
         + TimedCount(Tail(rs))

RECURSIVE TimedTotal(_)
TimedTotal(rs) ==
    IF rs = <<>> THEN 0
    ELSE (IF "inference_time_ms" \in DOMAIN Head(rs) THEN Head(rs).inference_time_ms ELSE 0)
         + TimedTotal(Tail(rs))

\* C7: total_images is the number of records, successful_detections the
\* number of records whose detected is true (none counts for a record without
\* the field), failed_detections the rest, and detections the records as given
C7_SummaryCounts ==
    Saved =>
        LET summary == output_data.detection_summary
        IN  /\ summary.total_images = Len(results)
            /\ summary.successful_detections = CountDetected(results)
            /\ summary.failed_detections =
                  summary.total_images - summary.successful_detections
            /\ output_data.detections = results

\* three records, one detected, one an error record, one without detected
C7_Witness ==
    /\ Saved
    /\ Len(results) = 3
    /\ output_data.detection_summary.successful_detections = 1
    /\ output_data.detection_summary.failed_detections = 2
    /\ \E k \in DOMAIN results : "detected" \notin DOMAIN results[k]
    /\ \E k \in DOMAIN results : "error" \in DOMAIN results[k]

\* C8: the success rate is successful / total * 100 rounded to 2 decimals (2
\* of 3 gives 66.67); for an empty list it is 0, nothing is raised for the
\* division, and the three counts are 0
C8_SuccessRate ==
    /\ Saved =>
          LET summary    == output_data.detection_summary
              total      == summary.total_images
              successful == summary.successful_detections
          IN  /\ total > 0 =>
                    2 * Abs(summary.success_rate * total - successful * 10000) <= total
              /\ (total = 3 /\ successful = 2) => summary.success_rate = 6667
              /\ total = 0 =>
                    /\ summary.success_rate = 0
                    /\ successful = 0
                    /\ summary.failed_detections = 0
    /\ (pc = "returned" /\ op = "save_results_to_json" /\ raised) => ~Writable(output_path)

\* 2 detections among 3 records: 66.67
C8_Witness ==
    /\ Saved
    /\ output_data.detection_summary.total_images = 3
    /\ output_data.detection_summary.successful_detections = 2
    /\ output_data.detection_summary.success_rate = 6667

\* C9: average_inference_time_ms is the mean of inference_time_ms over the
\* records that have the field, rounded to 2 decimals, and 0 when none has it
C9_AverageInferenceTime ==
    Saved =>
        LET average == output_data.detection_summary.average_inference_time_ms
            n       == TimedCount(results)
        IN  IF n = 0
            THEN average = 0
            ELSE 2 * Abs(average * n - TimedTotal(results)) <= n

\* an error record next to two timed records whose mean needs rounding
C9_Witness ==
    /\ Saved
    /\ Len(results) = 3
    /\ \E k \in DOMAIN results : "error" \in DOMAIN results[k]
    /\ TimedCount(results) = 2
    /\ TimedTotal(results) = 2501
    /\ output_data.detection_summary.average_inference_time_ms \in {1250, 1251}

-----------------------------------------------------------------------------
(* Repeated detection *)

\* a record for the path whose outcome the caller kept agrees with what was kept
AgreesWithKept(r) ==
    (probe # None /\ r.image_path = probe.outcome.image_path) =>
        Outcome(r) = probe.outcome

-----------------------------------------------------------------------------
(* Properties of the model load *)

\* C11: a model whose input shape is not (1, 224, 224, 3) or whose output
\* length is not 43 is rejected when the detector is constructed: no detector
\* exists for it, and no detect_sign call is the first to meet the mismatch
C11_ShapeCheckedAtLoad ==
    /\ detector = "ready" =>
          /\ self.input_details.shape = <<1, 224, 224, 3>>
          /\ self.output_details.shape = <<1, 43>>
    /\ (Returned /\ ~Successful(result)) =>
          result.error \notin {"Cannot set tensor: Dimension mismatch",
                               "list index out of range"}

-----------------------------------------------------------------------------
(* The fields of a record *)

\* C12: every record detect_sign returns has image_path, timestamp and
\* detected; a successful one also has inference_time_ms, and a model_info
\* with the detector's model_path and confidence_threshold and total_classes 43
C12_RecordFields ==
    (pc = "returned" /\ op = "detect_sign") =>
        /\ ~raised
        /\ {"image_path", "timestamp", "detected"} \subseteq DOMAIN result
        /\ result.timestamp \in Timestamps
        /\ result.detected \in BOOLEAN
        /\ Successful(result) =>
              /\ {"inference_time_ms", "model_info"} \subseteq DOMAIN result
              /\ result.model_info.model_path = self.model_path
              /\ result.model_info.confidence_threshold = self.confidence_threshold
              /\ result.model_info.total_classes = 43

\* a successful record of a detector made with a threshold of its own
C12_Witness ==
    /\ Returned
    /\ Successful(result)
    /\ self.confidence_threshold # DefaultThreshold
    /\ result.model_info.confidence_threshold = self.confidence_threshold
    /\ result.inference_time_ms = 1251

-----------------------------------------------------------------------------
(* Equal scores *)

\* the classes of a vector that have its largest score
Maximal(s) == {c \in DOMAIN s : s[c] = MaxScore(s)}

\* the smallest class id of a set of classes
Lowest(classes) == CHOOSE c \in classes : \A d \in classes : c <= d

\* C13: when several classes tie for the maximum score and that score is
\* above the threshold, primary_detection is the tied class with the lowest
\* class id
C13_TieGoesToLowestClass ==
    (Returned /\ Successful(result) /\ result.detected) =>
        result.primary_detection.class_id = Lowest(Maximal(ScoresOf(result)))

\* classes 0 and 42 tie for the maximum above the threshold: 0 is primary
C13_Witness ==
    /\ Returned
    /\ Successful(result)
    /\ result.detected
    /\ Maximal(ScoresOf(result)) = {0, 42}
    /\ result.primary_detection.class_id = 0

\* C14: entries of top_predictions with equal confidence are in ascending
\* order of class id, and of the classes that tie at the boundary of the top
\* 3 the ones with the lower class ids are listed
C14_TiesByAscendingClass ==
    (Returned /\ Successful(result)) =>
        LET s      == ScoresOf(result)
            top    == result.top_predictions
            listed == {top[k].class_id : k \in DOMAIN top}
        IN  /\ \A k \in DOMAIN top, l \in DOMAIN top :
                  (k < l /\ top[k].confidence = top[l].confidence) =>
                      top[k].class_id < top[l].class_id
            /\ Len(top) = 3 =>
                  \A c \in listed, d \in DOMAIN s \ listed : s[d] = s[c] => c < d

-----------------------------------------------------------------------------
(* top_predictions and detected *)

\* C15: a successful detect_sign never returns entries in top_predictions
\* together with detected = false: when an entry is listed, detected is true
\* and primary_detection is present
C15_ListedImpliesDetected ==
    (Returned /\ Successful(result) /\ result.top_predictions # <<>>) =>
        /\ result.detected
        /\ result.primary_detection # None

\* an entry is listed by a build that compares the score with the threshold
\* rounded down to float32
C15_Witness ==
    /\ Returned
    /\ Successful(result)
    /\ numpy.weak
    /\ F32(self.confidence_threshold) < self.confidence_threshold
    /\ result.top_predictions # <<>>
    /\ result.detected

-----------------------------------------------------------------------------
(* The life of a detector *)

\* what holds in every state: the model has been loaded once when a
\* constructor has run and never otherwise, a detector exists only for a file
\* that is a model, and nothing runs or has run where the load failed
LoadedOnce ==
    /\ loads = (IF detector = "none" THEN 0 ELSE 1)
    /\ detector = "ready" => ModelFile(self.model_path).valid
    /\ detector # "ready" =>
          /\ self = None
          /\ pc = "idle"
          /\ op = "none"
          /\ result = None
          /\ results = <<>>
          /\ output_data = None

\* what holds of every step: once the constructor has run there is no other
\* load, and a step of a detector leaves its model and its handle in place
HandleKept ==
    /\ detector # "none" =>
          /\ loads' = loads
          /\ detector' = detector
    /\ detector = "ready" =>
          /\ self'.model_path = self.model_path
          /\ self'.input_details = self.input_details
          /\ self'.output_details = self.output_details
          /\ self.interpreter.invoked => self'.interpreter.invoked
    /\ (self' # None /\ self'.interpreter.invoked) => loads' = 1

\* C17: the model is loaded exactly once, by the constructor; every inference
\* comes after that load succeeded; detect_sign, detect_batch and
\* save_results_to_json neither load nor replace the model; where the load
\* fails the constructor raises, no detector exists and no inference runs
C17_OneLoadPerDetector == []LoadedOnce /\ [][HandleKept]_vars

\* a batch of two inferences has returned from a detector that loaded once
C17_Witness ==
    /\ pc = "returned"
    /\ op = "detect_batch"
    /\ loads = 1
    /\ self.interpreter.invoked
    /\ Len(results) = 2
    /\ Successful(results[1])
    /\ Successful(results[2])

-----------------------------------------------------------------------------
(* top_predictions and primary_detection *)

\* C18: whenever a successful detect_sign returns detected = true, the first
\* entry of top_predictions has the class_id, label and confidence of
\* primary_detection, also when several classes tie for the maximum score
C18_FirstIsPrimary ==
    (Returned /\ Successful(result) /\ result.detected) =>
        /\ result.top_predictions # <<>>
        /\ result.top_predictions[1].class_id = result.primary_detection.class_id
        /\ result.top_predictions[1].label = result.primary_detection.label
        /\ result.top_predictions[1].confidence = result.primary_detection.confidence

====
